---- MODULE Spec2Model ----
(***************************************************************************)
(* PathSpec (src/pathspec/pathspec.py): an ordered list of compiled        *)
(* patterns with parent/child links, and the operations on it.             *)
(*                                                                         *)
(* Text is modelled as a sequence of one-character strings, a PathSpec as  *)
(* a record of its five fields, and the objects of the program as a heap:  *)
(* heap[i] is the PathSpec with identity i, in order of construction.      *)
(***************************************************************************)
EXTENDS Naturals, Sequences, FiniteSets

VARIABLES heap, result

vars == <<heap, result>>

\* ------------------------------------------------------------------ bounds

\* The number of PathSpec objects that may be alive.
MaxSpecs == 3

\* The same, in the matching specification.
MaxMatchSpecs == 1

\* The number of paths handed to one match_files / match_entries call.
MaxBatch == 2

\* ------------------------------------------------------------ input values

\* Pattern lines the callers and the specfiles use.
BlankLine   == <<>>
SpaceLine   == <<" ">>
CommentLine == <<"#", "a">>
EscHashLine == <<"\\", "#">>

\* The line sequences the object-graph specification constructs from.
GraphLineLists ==
  { <<>>,
    <<CommentLine>>,
    <<CommentLine, BlankLine, <<"a">>>>,
    <<<<"*">>, <<"!", "a">>>> }

\* The line sequences the matching specification constructs from.
LineLists ==
  GraphLineLists \cup
  { <<<<"!", "a">>, <<"a">>>>,
    <<SpaceLine, <<"/", "b">>>>,
    <<<<"a">>, <<"!", "b", "/", "a">>>>,
    <<EscHashLine, <<"b">>>> }

\* The specfiles on disk: path |-> the lines of the file.
FileSystem ==
  [p \in {".gitignore", "sub/.gitignore"} |->
     IF p = ".gitignore" THEN <<<<"*">>, <<"!", "a">>>> ELSE <<CommentLine>>]

SpecfilePaths == DOMAIN FileSystem \cup {"missing"}

\* Raw file paths given to the match operations.
GraphFiles == { <<"a">>, <<"b", "\\", "a">> }

Files ==
  GraphFiles \cup { <<"b">>, <<"b", "/", "a">>, <<"/", "a">>, <<"#">> }

\* The separators argument of the match operations.
SeparatorChoices == { {}, {"\\"} }

\* Python values, tagged by kind.
NoneValue == [kind |-> "None", val |-> "None"]
Str(s)    == [kind |-> "str", val |-> s]
Callable(s) == [kind |-> "callable", val |-> s]
IntValue  == [kind |-> "int", val |-> "42"]
List(l)   == [kind |-> "list", val |-> l]

\* The None reference of the parent and child fields.
NoneRef == 0

\* ------------------------------------------------ pattern compiler (spec 4.1)

\* What the compiler returns for a line that holds no pattern.
NonePattern == [kind |-> "None"]

RECURSIVE RStrip(_)
RStrip(line) ==
  IF line = <<>> THEN line
  ELSE IF line[Len(line)] = " "
          /\ ~(Len(line) >= 2 /\ line[Len(line) - 1] = "\\")
       THEN RStrip(SubSeq(line, 1, Len(line) - 1))
       ELSE line

compile(line) ==
  LET l1 == RStrip(line)
      neg == l1 # <<>> /\ Head(l1) = "!"
      l2 == IF neg THEN Tail(l1) ELSE l1
      anc == l2 # <<>> /\ Head(l2) = "/"
      l3 == IF anc THEN Tail(l2) ELSE l2
      dir == /\ l3 # <<>>
             /\ l3[Len(l3)] = "/"
             /\ ~(Len(l3) >= 2 /\ l3[Len(l3) - 1] = "\\")
      l4 == IF dir THEN SubSeq(l3, 1, Len(l3) - 1) ELSE l3
  IN IF l1 = <<>> THEN NonePattern
     ELSE IF Head(l1) = "#" THEN NonePattern
     ELSE [kind |-> "Pattern", source |-> line, include |-> ~neg,
           anchored |-> anc, dir_only |-> dir, body |-> l4]

\* A text split at its unescaped "/" into segments.
RECURSIVE SplitAcc(_, _, _)
SplitAcc(s, cur, acc) ==
  IF s = <<>> THEN Append(acc, cur)
  ELSE IF Head(s) = "\\" /\ Len(s) >= 2
       THEN SplitAcc(Tail(Tail(s)), cur \o <<s[1], s[2]>>, acc)
  ELSE IF Head(s) = "/" THEN SplitAcc(Tail(s), <<>>, Append(acc, cur))
  ELSE SplitAcc(Tail(s), Append(cur, Head(s)), acc)

Segments(s) == SplitAcc(s, <<>>, <<>>)

\* One pattern segment against one path segment.
RECURSIVE GlobMatch(_, _)
GlobMatch(pat, str) ==
  IF pat = <<>> THEN str = <<>>
  ELSE IF Head(pat) = "*"
       THEN GlobMatch(Tail(pat), str)
            \/ (str # <<>> /\ GlobMatch(pat, Tail(str)))
  ELSE IF Head(pat) = "?"
       THEN str # <<>> /\ GlobMatch(Tail(pat), Tail(str))
  ELSE IF Head(pat) = "\\" /\ Len(pat) >= 2
       THEN str # <<>> /\ Head(str) = pat[2]
            /\ GlobMatch(Tail(Tail(pat)), Tail(str))
  ELSE str # <<>> /\ Head(str) = Head(pat)
       /\ GlobMatch(Tail(pat), Tail(str))

\* pattern.matcher(path): the pattern's segments match consecutive segments
\* of the path, from the root when the pattern is anchored or holds a "/",
\* from any depth otherwise; the path itself or anything beneath it matches.
matcher(p, path) ==
  LET ps == Segments(p.body)
      fs == Segments(path)
      k  == Len(ps)
      starts == IF p.anchored \/ k > 1 THEN {1} ELSE 1..Len(fs)
  IN \E i \in starts :
        /\ i + k - 1 <= Len(fs)
        /\ \A j \in 1..k : GlobMatch(ps[j], fs[i + j - 1])

\* An entry of a patterns list accepts a path; an entry that is no Pattern
\* has no matcher and accepts nothing.
Accepts(p, path) == p.kind = "Pattern" /\ matcher(p, path)

\* ------------------------------------------------------- util (spec 4.2, 6)

RECURSIVE StripLeadingSlash(_)
StripLeadingSlash(s) ==
  IF s # <<>> /\ Head(s) = "/" THEN StripLeadingSlash(Tail(s)) ELSE s

normalize_file(file, separators) ==
  StripLeadingSlash(
    [i \in 1..Len(file) |-> IF file[i] \in separators THEN "/" ELSE file[i]])

\* util.match_file: the verdict starts false and every matching pattern, in
\* order, overwrites it with its polarity.
RECURSIVE MatchFold(_, _, _)
MatchFold(patterns, file, verdict) ==
  IF patterns = <<>> THEN verdict
  ELSE MatchFold(Tail(patterns), file,
                 IF Accepts(Head(patterns), file)
                 THEN Head(patterns).include ELSE verdict)

util_match_file(patterns, file) == MatchFold(patterns, file, FALSE)

\* util.match_files: one pass per pattern over all the paths; `matched` is
\* the set of paths whose current verdict is true.
RECURSIVE BatchFold(_, _, _)
BatchFold(patterns, files, matched) ==
  IF patterns = <<>> THEN matched
  ELSE LET p == Head(patterns)
           hits == {f \in files : Accepts(p, f)}
       IN BatchFold(Tail(patterns), files,
                    IF p.kind # "Pattern" THEN matched
                    ELSE IF p.include THEN matched \cup hits
                    ELSE matched \ hits)

util_match_files(patterns, files) == BatchFold(patterns, files, {})

\* util.normalize_files: the maps normalized path |-> original path a batch
\* can give; of two originals with one normalized form, iteration order
\* decides which is kept.
FileMaps(files, separators) ==
  LET keys == {normalize_file(f, separators) : f \in files}
  IN {m \in [keys -> files] :
        \A k \in keys : normalize_file(m[k], separators) = k}

\* The registry of pattern dialects.
RegisteredPatterns == {"gitwildmatch"}

lookup_pattern(name) ==
  IF name \in RegisteredPatterns
  THEN [err |-> "none", val |-> Callable("GitWildMatchPattern")]
  ELSE [err |-> "LookupError", val |-> NoneValue]

_is_iterable(value) == value.kind \in {"list", "str"}

\* ------------------------------------------------------------ class PathSpec

\* pattern_factory(line) for a callable factory.
CallFactory(pattern_factory, line) == compile(line)

\* [pattern_factory(line) for line in lines if line]
RECURSIVE CompileLines(_, _)
CompileLines(pattern_factory, lines) ==
  IF lines = <<>> THEN <<>>
  ELSE IF Head(lines) = <<>>
       THEN CompileLines(pattern_factory, Tail(lines))
       ELSE <<CallFactory(pattern_factory, Head(lines))>>
            \o CompileLines(pattern_factory, Tail(lines))

NoObject ==
  [lines |-> <<>>, patterns |-> <<>>, pattern_factory |-> NoneValue,
   parent |-> NoneRef, child |-> NoneRef]

\* Slip: the child field is set from the parent argument.
init_child_from_parent(lines, pattern_factory, parent) ==
  IF ~_is_iterable(lines) THEN [err |-> "TypeError", obj |-> NoObject]
  ELSE IF pattern_factory.kind # "callable"
          /\ \E i \in 1..Len(lines.val) : lines.val[i] # <<>>
       THEN [err |-> "TypeError", obj |-> NoObject]
  ELSE [err |-> "none",
        obj |-> [lines |-> lines.val,
                 patterns |-> CompileLines(pattern_factory, lines.val),
                 pattern_factory |-> pattern_factory,
                 parent |-> parent,
                 child |-> parent]]

\* PathSpec(lines, pattern_factory, parent): the new object, or the error
\* raised by list(lines) or by calling a factory that is not callable.
__init__(lines, pattern_factory, parent) ==
  IF ~_is_iterable(lines) THEN [err |-> "TypeError", obj |-> NoObject]
  ELSE IF pattern_factory.kind # "callable"
          /\ \E i \in 1..Len(lines.val) : lines.val[i] # <<>>
       THEN [err |-> "TypeError", obj |-> NoObject]
  ELSE [err |-> "none",
        obj |-> [lines |-> lines.val,
                 patterns |-> CompileLines(pattern_factory, lines.val),
                 pattern_factory |-> pattern_factory,
                 parent |-> parent,
                 child |-> NoneRef]]

\* izip_longest(a, b): pairs up to the longer length, the shorter padded
\* with None.
izip_longest(a, b) ==
  LET n == IF Len(a) >= Len(b) THEN Len(a) ELSE Len(b)
  IN [i \in 1..n |->
        <<IF i <= Len(a) THEN a[i] ELSE NonePattern,
          IF i <= Len(b) THEN b[i] ELSE NonePattern>>]

__eq__(self, other) ==
  LET paired_patterns == izip_longest(self.patterns, other.patterns)
  IN \A i \in 1..Len(paired_patterns) :
        paired_patterns[i][1] = paired_patterns[i][2]

__len__(self) == Len(self.patterns)

\* Slip: the test that the factory is callable is left out.
from_lines_unchecked(args) ==
  IF Len(args) # 2 THEN [err |-> "TypeError", obj |-> NoObject]
  ELSE
    LET looked == IF args[1].kind = "str" THEN lookup_pattern(args[1].val)
                  ELSE [err |-> "none", val |-> args[1]]
        pattern_factory == looked.val
        lines == args[2]
    IN IF looked.err # "none" THEN [err |-> looked.err, obj |-> NoObject]
       ELSE IF ~_is_iterable(lines)
            THEN [err |-> "TypeError", obj |-> NoObject]
       ELSE __init__(lines, pattern_factory, NoneRef)

\* PathSpec.from_lines(*args): a call with other than two arguments fails to
\* bind the parameters pattern_factory and lines.
from_lines(args) ==
  IF Len(args) # 2 THEN [err |-> "TypeError", obj |-> NoObject]
  ELSE
    LET looked == IF args[1].kind = "str" THEN lookup_pattern(args[1].val)
                  ELSE [err |-> "none", val |-> args[1]]
        pattern_factory == looked.val
        lines == args[2]
    IN IF looked.err # "none" THEN [err |-> looked.err, obj |-> NoObject]
       ELSE IF pattern_factory.kind # "callable"
            THEN [err |-> "TypeError", obj |-> NoObject]
       ELSE IF ~_is_iterable(lines)
            THEN [err |-> "TypeError", obj |-> NoObject]
       ELSE __init__(lines, pattern_factory, NoneRef)

\* Change: the factory and the file handle are both handed to from_lines.
from_specfile_two_args(pattern_factory, specfile_path) ==
  IF specfile_path \notin DOMAIN FileSystem
  THEN [err |-> "TypeError", obj |-> NoObject]
  ELSE from_lines(<<pattern_factory, List(FileSystem[specfile_path])>>)

\* PathSpec.from_specfile(pattern_factory, specfile_path): the file handle is
\* the only argument handed to from_lines.
from_specfile(pattern_factory, specfile_path) ==
  IF specfile_path \notin DOMAIN FileSystem
  THEN [err |-> "TypeError", obj |-> NoObject]
  ELSE LET specfile_handle == List(FileSystem[specfile_path])
       IN from_lines(<<specfile_handle>>)

\* self.push_specfile(specfile_path) on heap h: the error raised, or the heap
\* with the child appended and linked, and the child returned.
push_specfile(h, self, specfile_path) ==
  LET made == from_specfile(h[self].pattern_factory, specfile_path)
      id == Len(h) + 1
      child_spec == [made.obj EXCEPT
                       !.lines = h[self].lines \o @,
                       !.patterns = h[self].patterns \o @,
                       !.parent = self]
  IN IF made.err # "none"
     THEN [err |-> made.err, heap |-> h, ret |-> NoneRef]
     ELSE [err |-> "none",
           heap |-> [Append(h, child_spec) EXCEPT ![self].child = id],
           ret |-> id]

pop_specfile(h, self) ==
  IF h[self].parent = NoneRef
  THEN [err |-> "AttributeError", ret |-> NoneRef]
  ELSE [err |-> "none", ret |-> h[self].parent]

\* Slip: the patterns are handed over in reverse order.
match_file_reversed(self, file, separators) ==
  LET n == Len(self.patterns)
      reversed == [i \in 1..n |-> self.patterns[n + 1 - i]]
  IN util_match_file(reversed, normalize_file(file, separators))

match_file(self, file, separators) ==
  LET norm_file == normalize_file(file, separators)
  IN util_match_file(self.patterns, norm_file)

\* Slip: every file of the file_map is yielded, matched or not.
match_files_unfiltered(self, file_map) ==
  {file_map[path] : path \in DOMAIN file_map}

\* The files match_files yields, given the file_map normalize_files built.
match_files(self, file_map) ==
  LET matched_files == util_match_files(self.patterns, DOMAIN file_map)
  IN {file_map[path] : path \in matched_files}

\* The entries match_entries yields; an entry is a record with a path.
match_entries(self, entry_map) ==
  LET match_paths == util_match_files(self.patterns, DOMAIN entry_map)
  IN {entry_map[path] : path \in match_paths}

\* ------------------------------------------------------------------- state

\* The record of the call in progress or just returned: the operation, its
\* arguments, and what it returned or raised.
NoResult ==
  [op |-> "none", self |-> NoneRef, other |-> NoneRef, err |-> "none",
   factory |-> NoneValue, lines |-> NoneValue, path |-> "",
   file |-> <<>>, norm |-> <<>>, seps |-> {}, files |-> {},
   retBool |-> FALSE, retSet |-> {}, retInt |-> 0, retRef |-> NoneRef]

Refs == 1..Len(heap)

FactoryArgs ==
  {Str("gitwildmatch"), Str("grepwildmatch"),
   Callable("GitWildMatchPattern"), IntValue}

LinesArgs(lists) == {List(l) : l \in lists} \cup {IntValue}

Batches(files) == {S \in SUBSET files : Cardinality(S) <= MaxBatch}

\* The caller is between two calls.
Idle == result.op = "none"

Init ==
  /\ heap = <<>>
  /\ result = NoResult

\* Slip: the new PathSpec is made its own parent.
ConstructOwnParent(lines, pattern_factory, parent) ==
  LET made == __init__(lines, pattern_factory, Len(heap) + 1)
  IN /\ Idle
     /\ Len(heap) < MaxSpecs
     /\ heap' = IF made.err = "none" THEN Append(heap, made.obj) ELSE heap
     /\ result' = [NoResult EXCEPT
                     !.op = "PathSpec", !.factory = pattern_factory,
                     !.lines = lines, !.other = parent, !.err = made.err,
                     !.retRef = IF made.err = "none" THEN Len(heap) + 1
                                ELSE NoneRef]

\* PathSpec(lines, pattern_factory, parent)
Construct(lines, pattern_factory, parent) ==
  LET made == __init__(lines, pattern_factory, parent)
  IN /\ Idle
     /\ Len(heap) < MaxSpecs
     /\ heap' = IF made.err = "none" THEN Append(heap, made.obj) ELSE heap
     /\ result' = [NoResult EXCEPT
                     !.op = "PathSpec", !.factory = pattern_factory,
                     !.lines = lines, !.other = parent, !.err = made.err,
                     !.retRef = IF made.err = "none" THEN Len(heap) + 1
                                ELSE NoneRef]

\* PathSpec.from_lines(pattern_factory, lines)
FromLines(pattern_factory, lines) ==
  LET made == from_lines(<<pattern_factory, lines>>)
  IN /\ Idle
     /\ Len(heap) < MaxSpecs
     /\ heap' = IF made.err = "none" THEN Append(heap, made.obj) ELSE heap
     /\ result' = [NoResult EXCEPT
                     !.op = "from_lines", !.factory = pattern_factory,
                     !.lines = lines, !.err = made.err,
                     !.retRef = IF made.err = "none" THEN Len(heap) + 1
                                ELSE NoneRef]

\* PathSpec.from_specfile(pattern_factory, specfile_path)
FromSpecfile(pattern_factory, specfile_path) ==
  LET made == from_specfile(pattern_factory, specfile_path)
  IN /\ Idle
     /\ Len(heap) < MaxSpecs
     /\ heap' = IF made.err = "none" THEN Append(heap, made.obj) ELSE heap
     /\ result' = [NoResult EXCEPT
                     !.op = "from_specfile", !.factory = pattern_factory,
                     !.path = specfile_path, !.err = made.err,
                     !.retRef = IF made.err = "none" THEN Len(heap) + 1
                                ELSE NoneRef]

\* self.push_specfile(specfile_path)
PushSpecfile(self, specfile_path) ==
  LET pushed == push_specfile(heap, self, specfile_path)
  IN /\ Idle
     /\ Len(heap) < MaxSpecs
     /\ heap' = pushed.heap
     /\ result' = [NoResult EXCEPT
                     !.op = "push_specfile", !.self = self,
                     !.path = specfile_path, !.err = pushed.err,
                     !.retRef = pushed.ret]

\* self.pop_specfile()
PopSpecfile(self) ==
  LET popped == pop_specfile(heap, self)
  IN /\ Idle
     /\ heap' = heap
     /\ result' = [NoResult EXCEPT
                     !.op = "pop_specfile", !.self = self,
                     !.err = popped.err, !.retRef = popped.ret]

\* self.push_specfile(specfile_path).pop_specfile()
PushPop(self, specfile_path) ==
  LET pushed == push_specfile(heap, self, specfile_path)
      popped == pop_specfile(pushed.heap, pushed.ret)
  IN /\ Idle
     /\ Len(heap) < MaxSpecs
     /\ heap' = pushed.heap
     /\ result' = [NoResult EXCEPT
                     !.op = "push_pop", !.self = self,
                     !.path = specfile_path,
                     !.err = IF pushed.err # "none" THEN pushed.err
                             ELSE popped.err,
                     !.retRef = IF pushed.err # "none" THEN NoneRef
                                ELSE popped.ret]

\* self.match_file(file, separators)
MatchFile(self, file, separators) ==
  /\ Idle
  /\ heap' = heap
  /\ result' = [NoResult EXCEPT
                  !.op = "match_file", !.self = self, !.file = file,
                  !.seps = separators,
                  !.norm = normalize_file(file, separators),
                  !.retBool = match_file(heap[self], file, separators)]

\* self.match_files(files, separators), run to the end of the generator
MatchFiles(self, files, separators) ==
  /\ Idle
  /\ heap' = heap
  /\ \E file_map \in FileMaps(files, separators) :
       result' = [NoResult EXCEPT
                    !.op = "match_files", !.self = self, !.files = files,
                    !.seps = separators,
                    !.retSet = match_files(heap[self], file_map)]

\* self.match_entries(entries, separators), run to the end of the generator;
\* the entries are the tree entries of the paths in `files`
MatchEntries(self, files, separators) ==
  /\ Idle
  /\ heap' = heap
  /\ \E file_map \in FileMaps(files, separators) :
       LET entry_map == [k \in DOMAIN file_map |-> [path |-> file_map[k]]]
       IN result' = [NoResult EXCEPT
                       !.op = "match_entries", !.self = self,
                       !.files = files, !.seps = separators,
                       !.retSet = match_entries(heap[self], entry_map)]

\* self == other; other = None stands for any object that is no PathSpec
Eq(self, other) ==
  /\ Idle
  /\ heap' = heap
  /\ result' = [NoResult EXCEPT
                  !.op = "__eq__", !.self = self, !.other = other,
                  !.err = IF other = NoneRef THEN "NotImplemented"
                          ELSE "none",
                  !.retBool = IF other = NoneRef THEN FALSE
                              ELSE __eq__(heap[self], heap[other])]

\* len(self)
LenOf(self) ==
  /\ Idle
  /\ heap' = heap
  /\ result' = [NoResult EXCEPT
                  !.op = "__len__", !.self = self,
                  !.retInt = __len__(heap[self])]

\* The caller has taken the result of the call and goes on to its next.
Resume ==
  /\ ~Idle
  /\ result' = NoResult
  /\ UNCHANGED heap

\* Every operation, on a graph of up to MaxSpecs PathSpecs.
Next ==
  \/ \E l \in LinesArgs(GraphLineLists), p \in {NoneRef} \cup Refs :
        Construct(l, Callable("GitWildMatchPattern"), p)
  \/ \E f \in FactoryArgs, l \in LinesArgs(GraphLineLists) : FromLines(f, l)
  \/ \E f \in FactoryArgs, p \in SpecfilePaths : FromSpecfile(f, p)
  \/ \E s \in Refs, p \in SpecfilePaths : PushSpecfile(s, p)
  \/ \E s \in Refs : PopSpecfile(s)
  \/ \E s \in Refs, p \in SpecfilePaths : PushPop(s, p)
  \/ \E s \in Refs, f \in GraphFiles : MatchFile(s, f, {"\\"})
  \/ \E s \in Refs, b \in Batches(GraphFiles) : MatchFiles(s, b, {"\\"})
  \/ \E s \in Refs, b \in Batches(GraphFiles) : MatchEntries(s, b, {"\\"})
  \/ \E s \in Refs, o \in {NoneRef} \cup Refs : Eq(s, o)
  \/ \E s \in Refs : LenOf(s)
  \/ Resume

Spec == Init /\ [][Next]_vars

\* The match operations, over every line sequence, path and separator set.
NextMatch ==
  \/ /\ Len(heap) < MaxMatchSpecs
     /\ \E f \in FactoryArgs, l \in LinesArgs(LineLists) : FromLines(f, l)
  \/ \E s \in Refs, f \in Files, sep \in SeparatorChoices :
        MatchFile(s, f, sep)
  \/ \E s \in Refs, b \in Batches(Files), sep \in SeparatorChoices :
        MatchFiles(s, b, sep)
  \/ \E s \in Refs, b \in Batches(Files), sep \in SeparatorChoices :
        MatchEntries(s, b, sep)
  \/ Resume

SpecMatch == Init /\ [][NextMatch]_vars

\* ================================================================== claims

Normalized(file, separators) == normalize_file(file, separators) = file

\* The indices of the entries of a patterns list that accept a path.
Matching(P, f) == {i \in 1..Len(P) : Accepts(P[i], f)}

Last(S) == CHOOSE i \in S : \A j \in S : j <= i

\* C1: match_file on a normalized path returns the polarity of the last
\* pattern of the PathSpec that accepts the path, whatever the polarity of
\* the earlier matching patterns, and false when no pattern accepts it.
C1_LastMatchWins ==
  (result.op = "match_file" /\ Normalized(result.file, result.seps)) =>
    LET P == heap[result.self].patterns
        M == Matching(P, result.file)
    IN result.retBool = (IF M = {} THEN FALSE ELSE P[Last(M)].include)

\* C1 witness: a match_file call on a path that an excluding pattern and a
\* later including pattern both accept, answered true.
C1_Witness ==
  /\ result.op = "match_file"
  /\ Normalized(result.file, result.seps)
  /\ LET P == heap[result.self].patterns
         M == Matching(P, result.file)
     IN \E i, j \in M : i < j /\ ~P[i].include /\ P[j].include
  /\ result.retBool

\* C2: match_files on a set of normalized paths yields exactly the paths of
\* the set that match_file accepts one by one.
C2_BatchEqualsSingle ==
  (/\ result.op = "match_files"
   /\ \A f \in result.files : Normalized(f, result.seps)) =>
    result.retSet =
      {f \in result.files : match_file(heap[result.self], f, result.seps)}

\* C2 witness: a batch of two normalized paths of which an including pattern
\* accepts both and a later excluding pattern takes one away again.
C2_Witness ==
  /\ result.op = "match_files"
  /\ \A f \in result.files : Normalized(f, result.seps)
  /\ Cardinality(result.files) = 2
  /\ Cardinality(result.retSet) = 1
  /\ LET P == heap[result.self].patterns
     IN \E i, j \in 1..Len(P) :
          /\ i < j /\ P[i].include /\ ~P[j].include
          /\ \A f \in result.files : Accepts(P[i], f)
          /\ \E f \in result.files : Accepts(P[j], f)

IsBlank(line) == RStrip(line) = <<>>
IsComment(line) == ~IsBlank(line) /\ Head(RStrip(line)) = "#"
IsPatternLine(line) == ~IsBlank(line) /\ ~IsComment(line)

\* C3: the patterns of a PathSpec hold exactly one Pattern per line that is
\* neither blank nor a comment, in line order, and nothing else.
C3_OnePatternPerPatternLine ==
  \A s \in Refs :
    LET kept == SelectSeq(heap[s].lines, IsPatternLine)
    IN /\ Len(heap[s].patterns) = Len(kept)
       /\ \A i \in 1..Len(heap[s].patterns) :
            /\ heap[s].patterns[i].kind = "Pattern"
            /\ heap[s].patterns[i].source = kept[i]

\* C4: A == B is true exactly when the two patterns lists have the same
\* length and are equal position by position.
C4_EqIffPairwiseEqual ==
  (result.op = "__eq__" /\ result.other # NoneRef) =>
    LET A == heap[result.self].patterns
        B == heap[result.other].patterns
    IN result.retBool =
         (Len(A) = Len(B) /\ \A i \in 1..Len(A) : A[i] = B[i])

C6_PushReturnsChild ==
  (result.op = "push_specfile" /\ result.path \in DOMAIN FileSystem) =>
    /\ result.err = "none"
    /\ result.retRef \in Refs
    /\ LET s == heap[result.self]
           c == heap[result.retRef]
       IN /\ c.parent = result.self
          /\ c.lines = s.lines \o FileSystem[result.path]
          /\ c.patterns =
               s.patterns
               \o CompileLines(s.pattern_factory, FileSystem[result.path])

Children(s) == {c \in Refs : heap[c].parent = s}

RECURSIVE ReachesRoot(_, _)
ReachesRoot(s, steps) ==
  IF s = NoneRef THEN TRUE
  ELSE IF steps = 0 \/ s \notin Refs THEN FALSE
  ELSE ReachesRoot(heap[s].parent, steps - 1)

\* C8: following parent from any PathSpec ends at a PathSpec without parent
\* after at most as many steps as there are PathSpecs.
C8_NoParentCycle == \A s \in Refs : ReachesRoot(s, Len(heap))

\* C8 witness: pop_specfile has returned the parent of a PathSpec whose
\* parent has a parent of its own.
C8_Witness ==
  /\ result.op = "pop_specfile"
  /\ result.err = "none"
  /\ heap[result.retRef].parent # NoneRef

UnknownName(v) == v.kind = "str" /\ v.val \notin RegisteredPatterns
NotCallable(v) == v.kind \notin {"str", "callable"}

\* C9: a from_lines call ends in an error exactly when the factory is an
\* unregistered name, the factory is neither a name nor callable, or the
\* lines are not iterable (a TypeError in the last two cases); a call that
\* ends in an error creates nothing, and any other call adds one PathSpec
\* and returns it.
C9_FromLinesConfigErrors ==
  [][result'.op = "from_lines" =>
       LET f == result'.factory
           l == result'.lines
           bad == UnknownName(f) \/ NotCallable(f) \/ ~_is_iterable(l)
       IN /\ bad <=> result'.err # "none"
          /\ (bad /\ ~UnknownName(f)) => result'.err = "TypeError"
          /\ bad => heap' = heap
          /\ ~bad => /\ heap' = Append(heap, heap'[Len(heap')])
                     /\ result'.retRef = Len(heap')
                     /\ heap'[Len(heap')].lines = l.val]_vars

\* C9 witness: a from_lines call with a callable factory and lines that
\* are not iterable has ended in a TypeError.
C9_Witness ==
  /\ result.op = "from_lines"
  /\ result.factory.kind = "callable"
  /\ result.lines.kind = "int"
  /\ result.err = "TypeError"

\* C10: pop_specfile returns the parent when there is one and raises
\* AttributeError when there is none, and push_specfile followed by
\* pop_specfile gives back the PathSpec it started from.
C10_PopIsParentLookup ==
  /\ result.op = "pop_specfile" =>
       IF heap[result.self].parent = NoneRef
       THEN result.err = "AttributeError"
       ELSE result.err = "none" /\ result.retRef = heap[result.self].parent
  /\ (result.op = "push_pop" /\ result.path \in DOMAIN FileSystem) =>
       result.err = "none" /\ result.retRef = result.self

====
